---- MODULE Spec2Model ----
(***************************************************************************)
(* A model of demucs/separate.py: the resolution of the model file          *)
(* (lookup in PRETRAINED_MODELS, optional download, sha256 verification),   *)
(* the model load, and the loop over the tracks (read, normalisation,       *)
(* apply_model, denormalisation, 16-bit quantisation, wav output).          *)
(*                                                                         *)
(* A behaviour is a sequence of runs of main() on the same machine: the     *)
(* models directory persists from one run to the next.                      *)
(*                                                                         *)
(* Amplitudes are fixed-point integers in units of 2^-16 (half of one       *)
(* 16-bit step), wrapped in a record that also represents NaN and the two   *)
(* infinities of the float arithmetic.  The dimensionless values that go    *)
(* through apply_model are fixed-point integers in units of 1/NormScale.    *)
(***************************************************************************)
EXTENDS Integers, Sequences, FiniteSets, TLC

VARIABLES
    args,       \* the parsed command line of the current run
    modelFile,  \* the file at args.models / name
    pc,         \* position of main() in the current run
    run,        \* number of the current run
    requests,   \* requests.get calls issued by the current run
    hadFile,    \* model_path.is_file() as evaluated by the current run
    signature,  \* the hexdigest verify_file computed in the current run
    loaded,     \* load_model has returned in the current run
    i,          \* index of the track the loop is at
    outputs,    \* per track: the folder its stems were written to, or NotWritten
    files,      \* the four wav files written for the last separated track
    stderr,     \* the diagnostics printed by the current run
    fed,        \* the waveform passed to apply_model for the last track
    sources,    \* the denormalised sources of the last track
    err,        \* where the uncaught exception of the current run was raised
    downloads,  \* download_file calls that returned, over all runs
    unlinked    \* the file the except clause of download_file removed in this run

vars == <<args, modelFile, pc, run, requests, hadFile, signature, loaded, i,
          outputs, files, stderr, fed, sources, err, downloads, unlinked>>

----------------------------------------------------------------------------
(* Bounds of the model. *)

MaxTracks == 2
MaxRuns == 2
MaxChunks == 2

----------------------------------------------------------------------------
(* Files and digests. *)

None == <<>>

NoFile == [exists |-> FALSE, data |-> <<>>]

File(content) == [exists |-> TRUE, data |-> content]

\* A chunk that is not the one the release holds at its place.
Corrupt == "x"

\* The content published for a file name: two chunks, named after the file.
Released(f) == <<f, f>>

\* hashlib.sha256 over the whole content, collision free.
Sha256(content) == <<"sha256", content>>

BASE_URL == "https://dl.fbaipublicfiles.com/demucs/v2.0/"

PretrainedNames ==
    {"demucs.th", "demucs.th.gz", "demucs_extra.th", "demucs_extra.th.gz",
     "light.th", "light.th.gz", "light_extra.th", "light_extra.th.gz",
     "tasnet.th", "tasnet_extra.th"}

\* The catalog: file name -> hexdigest of the released content.
PRETRAINED_MODELS == [f \in PretrainedNames |-> Sha256(Released(f))]

\* PRETRAINED_MODELS.get(name)
CatalogGet(f) == IF f \in DOMAIN PRETRAINED_MODELS THEN PRETRAINED_MODELS[f] ELSE None

\* name = args.name + ".th" (+ ".gz" when quantized)
CanonicalName(a) == IF a.quantized THEN (a.name \o ".th") \o ".gz" ELSE a.name \o ".th"

----------------------------------------------------------------------------
(* The command line. *)

\* --name: tasnet.th is in the catalog, tasnet.th.gz (--quantized) is not.
ModelNames == {"tasnet"}

\* A file name is the sequence of its dot-separated parts and its dots.
TrackNames ==
    {<<"a", ".", "b", ".", "mp3">>, <<"a", ".", "c", ".", "mp3">>}

Tracks == [name : TrackNames, exists : BOOLEAN]

RECURSIVE SeqsUpTo(_, _)
SeqsUpTo(S, n) ==
    IF n = 0 THEN {<<>>}
    ELSE LET shorter == SeqsUpTo(S, n - 1)
         IN  shorter \cup {Append(s, x) : s \in {t \in shorter : Len(t) = n - 1}, x \in S}

\* nargs='+': at least one track
Batches == {b \in SeqsUpTo(Tracks, MaxTracks) : Len(b) >= 1}

Args == [name : ModelNames, quantized : BOOLEAN, dl : BOOLEAN, float32 : BOOLEAN,
         out : {"separated"}, tracks : Batches]

source_names == <<"drums", "bass", "other", "vocals">>

NotWritten == <<>>

NoFiles == <<>>

Terminal == {"done", "exit1", "raised"}

\* The exit status of the process once the run has ended.
ExitStatus == IF pc = "done" THEN 0 ELSE 1

----------------------------------------------------------------------------
(* Float arithmetic of the track pipeline. *)

\* 2**15 of the source
Scale15 == 2^15

\* Amplitudes are integers in units of 1/Resolution.
Resolution == 2 * Scale15

\* Units per integer step once an amplitude is multiplied by 2**15.
PerStep == Resolution \div Scale15

\* Dimensionless (normalised) values are integers in units of 1/NormScale.
NormScale == 2^2

Fin(n) == [k |-> "fin", v |-> n]
NaN == [k |-> "nan", v |-> 0]
PInf == [k |-> "inf", v |-> 0]
NInf == [k |-> "ninf", v |-> 0]

IsFinite(x) == x.k = "fin"

\* Division rounding toward zero, b > 0.
TruncDiv(a, b) == IF a >= 0 THEN a \div b ELSE -((-a) \div b)

RECURSIVE SqrtSearch(_, _, _)
SqrtSearch(n, lo, hi) ==
    IF lo = hi THEN lo
    ELSE LET mid == (lo + hi + 1) \div 2
         IN  IF mid * mid <= n THEN SqrtSearch(n, mid, hi) ELSE SqrtSearch(n, lo, mid - 1)

\* The integer square root.
Isqrt(n) == SqrtSearch(n, 0, IF n < 46340 THEN n ELSE 46340)

RECURSIVE SeqSum(_)
SeqSum(s) == IF s = <<>> THEN 0 ELSE Head(s) + SeqSum(Tail(s))

\* torch round(): to the nearest integer, ties to even; x counts half steps.
RoundHalfEven(x) ==
    LET q == x \div PerStep
    IN  IF x % PerStep = 0 THEN q ELSE IF q % 2 = 0 THEN q ELSE q + 1

\* wav = (wav * 2**15).round() / 2**15
Discretize(wav) == [c \in DOMAIN wav |-> [j \in DOMAIN wav[c] |-> PerStep * RoundHalfEven(wav[c][j])]]

\* ref = wav.mean(0): the mean over the two channels, per sample
ChannelMean(wav) == [j \in DOMAIN wav[1] |-> TruncDiv(wav[1][j] + wav[2][j], 2)]

\* ref.mean()
RefMean(ref) == TruncDiv(SeqSum(ref), Len(ref))

\* ref.std(): the unbiased standard deviation, Len(ref) >= 2
RefStd(ref) ==
    LET m == RefMean(ref)
        sq == [j \in DOMAIN ref |-> (ref[j] - m) * (ref[j] - m)]
    IN  Isqrt(SeqSum(sq) \div (Len(ref) - 1))

\* x / std in IEEE arithmetic: a zero divisor gives NaN or an infinity.
FloatDiv(x, std) ==
    IF std = 0
    THEN IF x = 0 THEN NaN ELSE IF x > 0 THEN PInf ELSE NInf
    ELSE Fin(TruncDiv(x * NormScale, std))

\* wav = (wav - ref.mean()) / ref.std()
Normalize(wav, mean, std) ==
    [c \in DOMAIN wav |-> [j \in DOMAIN wav[c] |-> FloatDiv(wav[c][j] - mean, std)]]

\* o * std + mean in IEEE arithmetic
FloatMulAdd(o, std, mean) ==
    IF o.k = "nan" THEN NaN
    ELSE IF o.k = "fin" THEN Fin(TruncDiv(o.v * std, NormScale) + mean)
    ELSE IF std = 0 THEN NaN ELSE o

\* sources = sources * ref.std() + ref.mean()
Denormalize(out, mean, std) ==
    [s \in DOMAIN out |-> [c \in DOMAIN out[s] |->
        [j \in DOMAIN out[s][c] |-> FloatMulAdd(out[s][c][j], std, mean)]]]

AllFinite(wav) == \A c \in DOMAIN wav : \A j \in DOMAIN wav[c] : IsFinite(wav[c][j])

\* Mutant: the upper bound of the clamp is 2**15.
Clamp_Wide(x) ==
    LET lo == -Scale15 * PerStep
        hi == Scale15 * PerStep
    IN  IF x.k = "nan" THEN NaN
        ELSE IF x.k = "inf" THEN Fin(hi)
        ELSE IF x.k = "ninf" THEN Fin(lo)
        ELSE IF x.v < lo THEN Fin(lo) ELSE IF x.v > hi THEN Fin(hi) ELSE x

\* clamp_(-2**15, 2**15 - 1) of a value counted in half steps; NaN stays NaN
Clamp(x) ==
    LET lo == -Scale15 * PerStep
        hi == (Scale15 - 1) * PerStep
    IN  IF x.k = "nan" THEN NaN
        ELSE IF x.k = "inf" THEN Fin(hi)
        ELSE IF x.k = "ninf" THEN Fin(lo)
        ELSE IF x.v < lo THEN Fin(lo) ELSE IF x.v > hi THEN Fin(hi) ELSE x

\* A 16-bit two's complement integer from an integer.
Wrap16(n) == ((n + Scale15) % (2 * Scale15)) - Scale15

\* What .short() may give for NaN (the conversion is undefined).
NaNShorts == {0, -Scale15}

\* .short(): truncation toward zero to a 16-bit integer.
Short(x, nanShort) == IF IsFinite(x) THEN Wrap16(TruncDiv(x.v, PerStep)) ELSE nanShort

\* source = (source * 2**15).clamp_(-2**15, 2**15 - 1).short()
Quantize(x, nanShort) == Short(Clamp(x), nanShort)

\* The array handed to wavfile.write for one source.
Encode(source, float32, nanShort) ==
    IF float32
    THEN [dtype |-> "float32", data |-> source]
    ELSE [dtype |-> "int16",
          data |-> [c \in DOMAIN source |->
                      [j \in DOMAIN source[c] |-> Quantize(source[c][j], nanShort)]]]

\* What AudioFile(track).read(...) may return: two channels of raw samples.
Waveforms ==
    { <<(<<0, 0, 0>>), (<<0, 0, 0>>)>>,
      <<(<<8192, 8192, 8192>>), (<<-8192, -8192, -8192>>)>>,
      <<(<<-16384, 1, 16384>>), (<<-16384, 1, 16384>>)>>,
      <<(<<-16384, 0, 16384>>), (<<-16382, 2, 16386>>)>> }

\* A source that holds the value o at every sample of both channels.
Flat(o, wav) == [c \in DOMAIN wav |-> [j \in DOMAIN wav[c] |-> o]]

\* The values apply_model may give the four sources, in units of 1/NormScale.
FiniteOutputs == {<<16, -16, 32, -1>>, <<1, -64, 0, 15>>}

\* What apply_model may return for a waveform: it is opaque; on an input that
\* is not finite it may also return NaN.
ApplyModelOutputs(wav) ==
    {[s \in 1..4 |-> Flat(Fin(o[s]), wav)] : o \in FiniteOutputs}
        \cup (IF AllFinite(wav) THEN {} ELSE {[s \in 1..4 |-> Flat(NaN, wav)]})

\* track.name.split(".")[0]
RECURSIVE SplitFirst(_)
SplitFirst(name) ==
    IF name = <<>> \/ Head(name) = "." THEN <<>>
    ELSE <<Head(name)>> \o SplitFirst(Tail(name))

\* track_folder = out / track.name.split(".")[0], with out = args.out / args.name
TrackFolder(a, track) == <<a.out, a.name, SplitFirst(track.name)>>

----------------------------------------------------------------------------
(* main(): the resolution of the model file. *)

name == CanonicalName(args)

sha256 == CatalogGet(name)

\* The files the models directory may hold at model_path before the first run.
InitialFiles(f) == {NoFile, File(Released(f)), File(<<Corrupt>>)}

Init ==
    /\ args \in Args
    /\ modelFile \in InitialFiles(CanonicalName(args))
    /\ pc = "resolve"
    /\ run = 1
    /\ requests = 0
    /\ hadFile = FALSE
    /\ signature = None
    /\ loaded = FALSE
    /\ i = 0
    /\ outputs = [j \in 1..Len(args.tracks) |-> NotWritten]
    /\ files = NoFiles
    /\ stderr = {}
    /\ fed = None
    /\ sources = None
    /\ err = "none"
    /\ downloads = 0
    /\ unlinked = NoFile

\* Mutant: --dl fetches the file again although it is on disk.
NeedsFetch_Refetch == ~modelFile.exists \/ args.dl

\* if not model_path.is_file():
NeedsFetch == ~modelFile.exists

\* Mutant: the download starts without --dl.
DownloadRefused_Never == FALSE

\* if not args.dl: ... sys.exit(1)
DownloadRefused == ~args.dl

\* Mutant: only a file that was just downloaded is verified.
MustVerify_OnlyDownloaded == sha256 # None /\ ~hadFile

\* verify_file is called for a model of the catalog: if sha256 is not None
MustVerify == sha256 # None

Resolve ==
    /\ pc = "resolve"
    /\ hadFile' = modelFile.exists
    /\ IF ~NeedsFetch
       THEN pc' = "check" /\ UNCHANGED stderr
       ELSE IF sha256 = None
       THEN pc' = "exit1" /\ stderr' = stderr \cup {<<"NoPretrainedModel", 0>>}
       ELSE IF DownloadRefused
       THEN pc' = "exit1" /\ stderr' = stderr \cup {<<"ModelMissing", 0>>}
       ELSE pc' = "get" /\ UNCHANGED stderr
    /\ UNCHANGED <<args, modelFile, run, requests, signature, loaded, i, outputs,
                   files, fed, sources, err, downloads, unlinked>>

\* response = requests.get(url, stream=True)
RequestsGet ==
    /\ pc = "get"
    /\ requests' = requests + 1
    /\ pc' \in {"open", "except"}
    /\ UNCHANGED <<args, modelFile, run, hadFile, signature, loaded, i, outputs,
                   files, stderr, fed, sources, err, downloads, unlinked>>

\* with open(target, "wb") as output:
OpenTarget ==
    /\ pc = "open"
    /\ \/ pc' = "stream" /\ modelFile' = File(<<>>)
       \/ pc' = "except" /\ UNCHANGED modelFile
    /\ UNCHANGED <<args, run, requests, hadFile, signature, loaded, i, outputs,
                   files, stderr, fed, sources, err, downloads, unlinked>>

\* output.write(data) for one chunk of response.iter_content
WriteChunk ==
    /\ pc = "stream"
    /\ Len(modelFile.data) < MaxChunks
    /\ \E data \in {name, Corrupt} : modelFile' = File(Append(modelFile.data, data))
    /\ UNCHANGED <<args, pc, run, requests, hadFile, signature, loaded, i, outputs,
                   files, stderr, fed, sources, err, downloads, unlinked>>

\* A network error, a disk error or an interruption while streaming.
StreamRaises ==
    /\ pc = "stream"
    /\ pc' = "except"
    /\ UNCHANGED <<args, modelFile, run, requests, hadFile, signature, loaded, i,
                   outputs, files, stderr, fed, sources, err, downloads, unlinked>>

\* iter_content is exhausted: _download and download_file return.
StreamEnds ==
    /\ pc = "stream"
    /\ pc' = "check"
    /\ downloads' = downloads + 1
    /\ UNCHANGED <<args, modelFile, run, requests, hadFile, signature, loaded, i,
                   outputs, files, stderr, fed, sources, err, unlinked>>

\* Mutant: the except clause re-raises without removing the file.
Cleanup_Keep == UNCHANGED modelFile /\ unlinked' = NoFile

\* except: if target.exists(): target.unlink()
Cleanup ==
    /\ modelFile' = IF modelFile.exists THEN NoFile ELSE modelFile
    /\ unlinked' = modelFile

\* except: ...; raise
ExceptHandler ==
    /\ pc = "except"
    /\ Cleanup
    /\ err' = "download"
    /\ pc' = "raised"
    /\ UNCHANGED <<args, run, requests, hadFile, signature, loaded, i, outputs,
                   files, stderr, fed, sources, downloads>>

\* Mutant: verify_file removes the file whose digest differs.
VerifyFile_Unlink ==
    /\ signature' = Sha256(modelFile.data)
    /\ IF signature' # sha256
       THEN pc' = "exit1" /\ stderr' = stderr \cup {<<"InvalidSha256", 0>>}
                         /\ modelFile' = NoFile
       ELSE pc' = "load" /\ UNCHANGED <<stderr, modelFile>>

\* verify_file(model_path, sha256)
VerifyFile ==
    /\ signature' = Sha256(modelFile.data)
    /\ IF signature' # sha256
       THEN pc' = "exit1" /\ stderr' = stderr \cup {<<"InvalidSha256", 0>>}
       ELSE pc' = "load" /\ UNCHANGED stderr
    /\ UNCHANGED modelFile

\* if sha256 is not None: verify_file(model_path, sha256)
CheckDigest ==
    /\ pc = "check"
    /\ IF MustVerify
       THEN VerifyFile
       ELSE pc' = "load" /\ UNCHANGED <<signature, stderr, modelFile>>
    /\ UNCHANGED <<args, run, requests, hadFile, loaded, i, outputs, files, fed,
                   sources, err, downloads, unlinked>>

\* model = load_model(model_path).to(args.device); out.mkdir(...)
LoadModel ==
    /\ pc = "load"
    /\ \/ loaded' = TRUE /\ pc' = "loop" /\ i' = 1 /\ UNCHANGED err
       \/ pc' = "raised" /\ err' = "load" /\ UNCHANGED <<loaded, i>>
    /\ UNCHANGED <<args, modelFile, run, requests, hadFile, signature, outputs,
                   files, stderr, fed, sources, downloads, unlinked>>

----------------------------------------------------------------------------
(* main(): the loop over the tracks. *)

InLoop == pc = "loop" /\ i <= Len(args.tracks)

track == args.tracks[i]

\* Mutant: a missing track ends the run with sys.exit(1).
TrackMissing_Exit ==
    /\ InLoop
    /\ ~track.exists
    /\ stderr' = stderr \cup {<<"TrackMissing", i>>}
    /\ pc' = "exit1"
    /\ UNCHANGED <<args, modelFile, i, run, requests, hadFile, signature, loaded,
                   outputs, files, fed, sources, err, downloads, unlinked>>

\* if not track.exists(): print(...); continue
TrackMissing ==
    /\ InLoop
    /\ ~track.exists
    /\ stderr' = stderr \cup {<<"TrackMissing", i>>}
    /\ i' = i + 1
    /\ UNCHANGED <<args, modelFile, pc, run, requests, hadFile, signature, loaded,
                   outputs, files, fed, sources, err, downloads, unlinked>>

\* AudioFile(track).read(...) raises: nothing catches it.
ReadRaises ==
    /\ InLoop
    /\ track.exists
    /\ pc' = "raised"
    /\ err' = "read"
    /\ UNCHANGED <<args, modelFile, run, requests, hadFile, signature, loaded, i,
                   outputs, files, stderr, fed, sources, downloads, unlinked>>

\* The waveform passed to apply_model for what AudioFile.read returned.
Prepared(raw) ==
    LET wav == Discretize(raw)
        ref == ChannelMean(wav)
    IN  Normalize(wav, RefMean(ref), RefStd(ref))

\* The sources after apply_model returned out for what AudioFile.read returned.
Restored(raw, out) ==
    LET ref == ChannelMean(Discretize(raw))
    IN  Denormalize(out, RefMean(ref), RefStd(ref))

\* apply_model(...) raises: nothing catches it.
ApplyRaises ==
    /\ InLoop
    /\ track.exists
    /\ \E raw \in Waveforms : fed' = Prepared(raw)
    /\ pc' = "raised"
    /\ err' = "apply"
    /\ UNCHANGED <<args, modelFile, run, requests, hadFile, signature, loaded, i,
                   outputs, files, stderr, sources, downloads, unlinked>>

\* The body of the loop for a track that is read and separated.
Separate ==
    /\ InLoop
    /\ track.exists
    /\ \E raw \in Waveforms : \E out \in ApplyModelOutputs(Prepared(raw)) :
         \E nanShort \in NaNShorts :
            /\ fed' = Prepared(raw)
            /\ sources' = Restored(raw, out)
            /\ files' = [s \in 1..4 |->
                            [file |-> source_names[s] \o ".wav", rate |-> 44100,
                             array |-> Encode(sources'[s], args.float32, nanShort)]]
    /\ outputs' = [outputs EXCEPT ![i] = TrackFolder(args, track)]
    /\ i' = i + 1
    /\ UNCHANGED <<args, modelFile, pc, run, requests, hadFile, signature, loaded,
                   stderr, err, downloads, unlinked>>

\* The loop is over: main returns.
Finish ==
    /\ pc = "loop"
    /\ i > Len(args.tracks)
    /\ pc' = "done"
    /\ UNCHANGED <<args, modelFile, run, requests, hadFile, signature, loaded, i,
                   outputs, files, stderr, fed, sources, err, downloads, unlinked>>

\* The command is run again, with the same arguments but for --dl.
NewRun ==
    /\ pc \in Terminal
    /\ run < MaxRuns
    /\ run' = run + 1
    /\ \E dl \in BOOLEAN : args' = [args EXCEPT !.dl = dl]
    /\ pc' = "resolve"
    /\ requests' = 0
    /\ hadFile' = FALSE
    /\ signature' = None
    /\ loaded' = FALSE
    /\ i' = 0
    /\ outputs' = [j \in 1..Len(args.tracks) |-> NotWritten]
    /\ files' = NoFiles
    /\ stderr' = {}
    /\ fed' = None
    /\ sources' = None
    /\ err' = "none"
    /\ unlinked' = NoFile
    /\ UNCHANGED <<modelFile, downloads>>

Next ==
    \/ Resolve
    \/ RequestsGet
    \/ OpenTarget
    \/ WriteChunk
    \/ StreamRaises
    \/ StreamEnds
    \/ ExceptHandler
    \/ CheckDigest
    \/ LoadModel
    \/ TrackMissing
    \/ ReadRaises
    \/ ApplyRaises
    \/ Separate
    \/ Finish
    \/ NewRun

Spec == Init /\ [][Next]_vars

----------------------------------------------------------------------------
(* Vocabulary of the properties. *)

\* The canonical file name is in the pretrained catalog.
Catalogued == CanonicalName(args) \in PretrainedNames

\* The digest the catalog holds for the canonical file name.
CatalogDigest == PRETRAINED_MODELS[CanonicalName(args)]

\* load_model has been called in the current run (it returned or it raised).
LoadCalled == loaded \/ err = "load"

\* The tracks of the batch.
TrackIds == 1..Len(args.tracks)

\* No stem of any track has been written in the current run.
NothingWritten == files = NoFiles /\ \A j \in TrackIds : outputs[j] = NotWritten

\* A file name without its extension: everything before the last dot.
RECURSIVE WithoutExtension(_)
WithoutExtension(n) ==
    IF n = <<>> THEN <<>>
    ELSE IF n[Len(n)] = "." THEN SubSeq(n, 1, Len(n) - 1)
    ELSE WithoutExtension(SubSeq(n, 1, Len(n) - 1))

\* v/2 truncated toward zero, from the floor of the division.
TruncatedHalf(v) ==
    LET floor == (v - (v % 2)) \div 2
    IN  IF v < 0 /\ v % 2 # 0 THEN floor + 1 ELSE floor

\* The 16-bit sample of an amplitude v counted in units of 2^-16:
\* v * 2^15 clamped to [-32768, 32767], then truncated.
ExpectedSample(v) ==
    IF v >= 2 * 32767 THEN 32767
    ELSE IF v <= 2 * (-32768) THEN -32768
    ELSE TruncatedHalf(v)

\* The samples of the sources and of the arrays written for the last track.
SampleIds == {<<s, c, j>> \in (1..4) \X (1..2) \X (1..3) :
                 s \in DOMAIN sources /\ c \in DOMAIN sources[s] /\ j \in DOMAIN sources[s][c]}

SourceAt(p) == sources[p[1]][p[2]][p[3]]

WrittenAt(p) == files[p[1]].array.data[p[2]][p[3]]

----------------------------------------------------------------------------
(* Properties. *)

\* C1: for a model of the catalog, load_model is called only once verify_file
\* has computed a digest of the file at model_path equal to the catalog's,
\* whether the file was downloaded or was already there; after a digest that
\* differs, load_model is not called and no track is separated or written.
C1_VerifiedBeforeLoad ==
    Catalogued =>
        /\ (LoadCalled \/ pc \in {"load", "loop", "done"}) =>
              /\ signature = CatalogDigest
              /\ modelFile.exists
              /\ Sha256(modelFile.data) = CatalogDigest
        /\ (modelFile.exists /\ Sha256(modelFile.data) # CatalogDigest) =>
              /\ ~LoadCalled
              /\ pc \notin {"load", "loop", "done"}
              /\ i = 0
              /\ fed = None
              /\ NothingWritten

\* C1 witness: a file that was already on disk is verified, then loaded.
C1_Witness ==
    /\ Catalogued
    /\ hadFile
    /\ requests = 0
    /\ loaded
    /\ signature = CatalogDigest

\* C2: when a step of the transfer raises, the target does not exist once the
\* error has left download_file, and the error reaches the caller: the run
\* ends on it, and neither verify_file nor load_model runs.
C2_NoPartialFile ==
    /\ err = "download" =>
          /\ ~modelFile.exists
          /\ pc = "raised"
          /\ signature = None
          /\ ~loaded
    /\ (pc = "raised" /\ ~loaded /\ err # "load") => err = "download"
    /\ pc = "except" => err = "none"

\* C2 witness: the transfer raised after a chunk was written, and the partial
\* file is gone.
C2_Witness ==
    /\ err = "download"
    /\ pc = "raised"
    /\ unlinked.exists
    /\ Len(unlinked.data) >= 1
    /\ ~modelFile.exists

\* C3: a model of the catalog, no file at model_path and no --dl: the run ends
\* with the ModelMissing diagnostic and a nonzero status, and issues no request.
C3_NoDownloadWithoutFlag ==
    (Catalogued /\ pc # "resolve" /\ ~hadFile /\ ~args.dl) =>
        /\ pc = "exit1"
        /\ ExitStatus # 0
        /\ <<"ModelMissing", 0>> \in stderr
        /\ requests = 0
        /\ ~modelFile.exists
        /\ ~LoadCalled

\* C3 witness: such a run has ended.
C3_Witness ==
    /\ Catalogued
    /\ ~hadFile
    /\ ~args.dl
    /\ pc = "exit1"
    /\ requests = 0

\* C4: from an empty models directory, with --dl and a remote serving the
\* released bytes, the run downloads exactly once, the verification succeeds
\* and the file exists; a run that finds the file issues no request, with or
\* without --dl.
C4_DownloadOnce ==
    /\ (Catalogued /\ ~hadFile /\ args.dl /\ err # "download"
          /\ pc \in {"check", "load", "loop", "done", "raised", "exit1"}
          /\ modelFile.data = Released(CanonicalName(args))) =>
            /\ requests = 1
            /\ modelFile.exists
            /\ pc # "exit1"
            /\ pc # "check" => signature = CatalogDigest
    /\ hadFile => (requests = 0 /\ pc \notin {"get", "open", "stream", "except"})
    /\ requests <= 1

\* C4 witness: the second run, with --dl, loads the file the first run
\* downloaded and issues no request.
C4_Witness ==
    /\ run = 2
    /\ downloads = 1
    /\ hadFile
    /\ args.dl
    /\ loaded
    /\ requests = 0

\* C5: after the model is loaded, a track that does not exist is skipped with
\* a diagnostic and writes nothing, every existing track the loop has passed
\* has its stems written, and a run fails after the load only on an exception,
\* never on a missing track.
C5_MissingTrackSkipped ==
    loaded =>
        /\ \A j \in TrackIds : j < i =>
              /\ args.tracks[j].exists => outputs[j] # NotWritten
              /\ ~args.tracks[j].exists =>
                    (outputs[j] = NotWritten /\ <<"TrackMissing", j>> \in stderr)
        /\ \A j \in TrackIds : j >= i => outputs[j] = NotWritten
        /\ (\A j \in TrackIds : ~args.tracks[j].exists) => files = NoFiles
        /\ pc = "done" => i = Len(args.tracks) + 1
        /\ pc \in {"exit1", "raised"} => err \in {"read", "apply"}
        /\ err = "none" => pc \in {"loop", "done"}

\* C5 witness: a run over a missing track followed by an existing one has
\* ended with status 0 and the stems of the second track.
C5_Witness ==
    /\ pc = "done"
    /\ ExitStatus = 0
    /\ Len(args.tracks) = 2
    /\ ~args.tracks[1].exists
    /\ args.tracks[2].exists
    /\ outputs[1] = NotWritten
    /\ outputs[2] # NotWritten
    /\ Len(files) = 4
    /\ <<"TrackMissing", 1>> \in stderr

\* C6: when AudioFile.read or apply_model raises for a track, every later track
\* of the batch is still processed and its stems are written.
C6_TrackIsolation ==
    (pc \in Terminal /\ err \in {"read", "apply"}) =>
        \A j \in TrackIds : (j > i /\ args.tracks[j].exists) => outputs[j] # NotWritten

\* C7: verify_file leaves the file as it is; on a digest that differs the run
\* ends with a diagnostic and a nonzero status, on a digest that matches
\* nothing but the position of the run changes.
C7_VerifyKeepsFile ==
    [][(pc = "check" /\ Catalogued) =>
          /\ modelFile' = modelFile
          /\ signature' = Sha256(modelFile.data)
          /\ IF Sha256(modelFile.data) # CatalogDigest
             THEN /\ pc' = "exit1"
                  /\ <<"InvalidSha256", 0>> \in stderr'
                  /\ ~loaded'
             ELSE /\ pc' = "load"
                  /\ stderr' = stderr
          /\ UNCHANGED <<args, run, requests, hadFile, loaded, i, outputs, files, fed,
                         sources, err, downloads, unlinked>>]_vars

\* C7 witness: verify_file has rejected a file, which is still on disk.
C7_Witness ==
    /\ Catalogued
    /\ signature # None
    /\ signature # CatalogDigest
    /\ pc = "exit1"
    /\ modelFile.exists
    /\ Sha256(modelFile.data) = signature

\* C8: without --float32 every written sample is the source value times 2^15,
\* clamped to [-32768, 32767] and truncated, within the signed 16-bit range:
\* 1.0 and anything above give 32767, -1.0 gives -32768.
C8_QuantizeClamps ==
    (~args.float32 /\ files # NoFiles) =>
        \A p \in SampleIds :
            /\ files[p[1]].array.dtype = "int16"
            /\ WrittenAt(p) \in -32768..32767
            /\ IsFinite(SourceAt(p)) =>
                  /\ WrittenAt(p) = ExpectedSample(SourceAt(p).v)
                  /\ SourceAt(p).v >= 65536 => WrittenAt(p) = 32767
                  /\ SourceAt(p).v = -65536 => WrittenAt(p) = -32768

\* C8 witness: sources of 1.0, -1.0 and 2.0 were written as 32767, -32768 and
\* 32767.
C8_Witness ==
    /\ ~args.float32
    /\ files # NoFiles
    /\ \E p \in SampleIds : SourceAt(p) = Fin(65536) /\ WrittenAt(p) = 32767
    /\ \E p \in SampleIds : SourceAt(p) = Fin(-65536) /\ WrittenAt(p) = -32768
    /\ \E p \in SampleIds : SourceAt(p) = Fin(131072) /\ WrittenAt(p) = 32767

\* C9: the stems of a track are written to <out>/<model name>/<D>, D being the
\* file name of the track without its last extension.
C9_FolderIsBaseName ==
    \A j \in TrackIds : outputs[j] # NotWritten =>
        outputs[j] = <<args.out, args.name, WithoutExtension(args.tracks[j].name)>>

\* C10: for every separated track, the waveform passed to apply_model and the
\* sources written afterwards hold only finite values, also when the reference
\* signal has zero standard deviation.
C10_FiniteNormalization ==
    (files # NoFiles /\ err # "apply") =>
        /\ AllFinite(fed)
        /\ \A s \in DOMAIN sources : AllFinite(sources[s])

====
